---- MODULE Spec2Model ----
(***************************************************************************)
(* Model of src/main.py: the HTTP entry point main, which builds the map   *)
(* of the folders of a shared drive (GoogleDriveRPA.build_folder_path_map) *)
(* and publishes it as folder_map.txt (GoogleDriveRPA.upload_map_to_drive).*)
(* Every remote call of an invocation is one step, so that the calls of    *)
(* concurrent invocations interleave as the hosting platform allows.       *)
(***************************************************************************)
EXTENDS Naturals, Sequences, FiniteSets, TLC

VARIABLES
    drive,           \* the provider's answers to files().list for the drive, one per page
    files,           \* the provider's files: records id, name, parent, trashed, content
    files0,          \* the files when the first invocation started
    pc,              \* per invocation: where it is in main
    page_token,      \* per invocation: build_folder_path_map's page_token
    folder_map,      \* per invocation: folder_map, a dict kept in insertion order
    content_str,     \* per invocation: upload_map_to_drive's content_str
    existing_files,  \* per invocation: upload_map_to_drive's existing_files
    response,        \* per invocation: what main returned
    calls,           \* per invocation: the remote calls issued so far, with their outcome
    doneBefore       \* per invocation: who had returned when its upload_map_to_drive started

vars == <<drive, files, files0, pc, page_token, folder_map, content_str,
          existing_files, response, calls, doneBefore>>

-----------------------------------------------------------------------------
(* Bounds *)

MaxPages == 2        \* pages the provider serves for one listing
MaxFolders == 2      \* folder records over all the pages of a listing
MaxExisting == 2     \* non-trashed files named folder_map.txt before any invocation

Invocations == {1, 2}

-----------------------------------------------------------------------------
(* Values *)

None == "None"                         \* Python's None
SHARED_DRIVE_FOLDER == "container"
FILENAME == "folder_map.txt"
IndexErrorMessage == "list index out of range"
ProviderErrors == {"HttpError 503"}
InitErrors == {"DefaultCredentialsError"}

\* Folder records as the provider returns them: hasParents says whether the
\* record carries the 'parents' key at all.
Folders ==
    { [id |-> "a", name |-> "A", hasParents |-> FALSE, parents |-> <<>>],
      [id |-> "b", name |-> "B", hasParents |-> TRUE,  parents |-> <<"a">>],
      [id |-> "b", name |-> "B2", hasParents |-> TRUE, parents |-> <<"a", "x">>],
      [id |-> "c", name |-> "C", hasParents |-> TRUE,  parents |-> <<>>] }

Token(k) == "tok" \o ToString(k)

SeqsUpTo(S, n) == UNION { [1..k -> S] : k \in 0..n }

RECURSIVE Flatten(_)
Flatten(pages) ==
    IF pages = <<>> THEN <<>> ELSE Head(pages) \o Flatten(Tail(pages))

\* The listings the provider may serve: 1..MaxPages pages, every page but the
\* last carrying a continuation token.
Listings ==
    { [k \in 1..Len(ps) |->
          [files |-> ps[k],
           nextPageToken |-> IF k < Len(ps) THEN Token(k + 1) ELSE None]] :
      ps \in { qs \in SeqsUpTo(SeqsUpTo(Folders, MaxFolders), MaxPages) :
                  Len(qs) >= 1 /\ Len(Flatten(qs)) <= MaxFolders } }

FileId(n) == "f" \o ToString(n)

\* Files that the search must not match: another name, trashed, another parent.
OtherFiles ==
    { [id |-> FileId(1), name |-> "notes.txt", parent |-> SHARED_DRIVE_FOLDER,
       trashed |-> FALSE, content |-> "notes"],
      [id |-> FileId(2), name |-> FILENAME, parent |-> SHARED_DRIVE_FOLDER,
       trashed |-> TRUE, content |-> "trashed"],
      [id |-> FileId(3), name |-> FILENAME, parent |-> "elsewhere",
       trashed |-> FALSE, content |-> "elsewhere"] }

InitialFiles(n) ==
    OtherFiles \cup
    { [id |-> FileId(3 + k), name |-> FILENAME, parent |-> SHARED_DRIVE_FOLDER,
       trashed |-> FALSE, content |-> "old"] : k \in 1..n }

-----------------------------------------------------------------------------
(* build_folder_path_map: the pure parts *)

\* folder.get('parents', [None])
GetParents(folder) ==
    IF folder.hasParents THEN folder.parents ELSE <<None>>

\* folder.get('parents', [None])[0] raises IndexError on an empty list
ParentRaises(folder) == Len(GetParents(folder)) = 0

\* parent_id = folder.get('parents', [None])[0]
ParentId(folder) == GetParents(folder)[1]

HasKey(map, key) == \E n \in 1..Len(map) : map[n].key = key

\* map[key] = value on a dict: a key already present keeps its place
DictSet(map, key, value) ==
    IF HasKey(map, key)
    THEN [n \in 1..Len(map) |->
             IF map[n].key = key THEN [key |-> key, value |-> value] ELSE map[n]]
    ELSE Append(map, [key |-> key, value |-> value])

\* folder_map[folder['id']] = {'name': folder['name'], 'parent': parent_id}
StoreFolder(map, folder) ==
    DictSet(map, folder.id, [name |-> folder.name, parent |-> ParentId(folder)])

\* for folder in folders: ...   The result is the map and the exception
\* raised on the way, None when the loop ran to its end.
RECURSIVE ProcessFolders(_, _)
ProcessFolders(map, folders) ==
    IF folders = <<>> THEN [map |-> map, raised |-> None]
    ELSE IF ParentRaises(Head(folders))
         THEN [map |-> map, raised |-> IndexErrorMessage]
         ELSE ProcessFolders(StoreFolder(map, Head(folders)), Tail(folders))

\* page_token = results.get('nextPageToken', None)
NextPageToken(results) == results.nextPageToken

\* Mutants of LoopEnds: a loop that stops after its first page, and a loop
\* without its break
LoopEndsAtOnce(token) == TRUE

LoopNeverEnds(token) == FALSE

\* if page_token is None: break
LoopEnds(token) == token = None

\* The provider's files().list(..., pageToken=token).execute() for the drive
ProviderList(listing, token) ==
    IF token = None THEN listing[1]
    ELSE listing[CHOOSE k \in 1..Len(listing) : Token(k) = token]

-----------------------------------------------------------------------------
(* upload_map_to_drive: the pure parts *)

Indent(level) == IF level = 1 THEN "    " ELSE "        "

\* json.dumps of a str (identifiers and names hold no character to escape)
DumpsStr(s) == "\"" \o s \o "\""

\* json.dumps of a parent id: None becomes null
DumpsParent(p) == IF p = None THEN "null" ELSE DumpsStr(p)

\* json.dumps of {'name': ..., 'parent': ...} at nesting level 1, indent=4
DumpsValue(v) ==
    "{\n" \o Indent(2) \o "\"name\": " \o DumpsStr(v.name) \o ",\n"
          \o Indent(2) \o "\"parent\": " \o DumpsParent(v.parent) \o "\n"
          \o Indent(1) \o "}"

RECURSIVE DumpsItems(_)
DumpsItems(map) ==
    IF map = <<>> THEN ""
    ELSE Indent(1) \o DumpsStr(Head(map).key) \o ": " \o DumpsValue(Head(map).value)
         \o (IF Tail(map) = <<>> THEN "" ELSE ",\n" \o DumpsItems(Tail(map)))

\* Mutant of JsonDumps: the braces of an empty dict on two lines
JsonDumpsOpenBraces(map) == "{\n" \o DumpsItems(map) \o "\n}"

\* content_str = json.dumps(map_data, indent=4)
JsonDumps(map) ==
    IF map = <<>> THEN "{}" ELSE "{\n" \o DumpsItems(map) \o "\n}"

\* Mutant of Matches: the query without its trashed = false
MatchesTrashedToo(f, filename, folder_id) ==
    f.name = filename /\ f.parent = folder_id

\* query = f"name = '{filename}' and '{folder_id}' in parents and trashed = false"
Matches(f, filename, folder_id) ==
    f.name = filename /\ f.parent = folder_id /\ ~f.trashed

MatchingIds(fs, filename, folder_id) ==
    { f.id : f \in { g \in fs : Matches(g, filename, folder_id) } }

\* The orders in which the provider may return the matching files (fields='files(id)')
SearchResults(fs, filename, folder_id) ==
    LET ids == MatchingIds(fs, filename, folder_id)
    IN  { s \in [1..Cardinality(ids) -> ids] :
              \A m, n \in 1..Cardinality(ids) : m # n => s[m] # s[n] }

\* Mutant of SelectExisting: the last match instead of the first
SelectLast(found) == found[Len(found)]

\* file_id = existing_files[0]['id']
SelectExisting(found) == found[1]

\* The provider's files().update(fileId, media_body): the content is replaced
ProviderUpdate(fs, file_id, content) ==
    { IF f.id = file_id THEN [f EXCEPT !.content = content] ELSE f : f \in fs }

\* Mutant of ProviderCreate: a create that writes into a file of that name
\* and parent when there is one
ProviderCreateIfAbsent(fs, filename, folder_id, content) ==
    IF \E f \in fs : f.name = filename /\ f.parent = folder_id /\ ~f.trashed
    THEN { IF f.name = filename /\ f.parent = folder_id /\ ~f.trashed
           THEN [f EXCEPT !.content = content] ELSE f : f \in fs }
    ELSE fs \cup { [id |-> FileId(Cardinality(fs) + 1), name |-> filename,
                    parent |-> folder_id, trashed |-> FALSE, content |-> content] }

\* The id the provider gives the next file it creates
NewFileId(fs) == FileId(Cardinality(fs) + 1)

\* file_metadata = {'name': filename, 'parents': [folder_id], 'mimeType': 'text/plain'}
\* and the provider's files().create(body=file_metadata, media_body)
ProviderCreate(fs, filename, folder_id, content) ==
    fs \cup { [id |-> NewFileId(fs), name |-> filename, parent |-> folder_id,
               trashed |-> FALSE, content |-> content] }

-----------------------------------------------------------------------------
(* main: the responses *)

NoResponse == [code |-> 0, status |-> "none", message |-> "", file_id |-> None]

\* Mutant of SuccessResponse: the id of the written file is lost
SuccessResponseNoId(file_id) ==
    [code |-> 200, status |-> "success", message |-> "Map updated successfully",
     file_id |-> None]

\* return {"status": "success", "message": ..., "file_id": file_id}, 200
SuccessResponse(file_id) ==
    [code |-> 200, status |-> "success", message |-> "Map updated successfully",
     file_id |-> file_id]

\* Mutant of ErrorResponse: a fixed message instead of str(e)
ErrorResponseFixedMessage(e) ==
    [code |-> 500, status |-> "error", message |-> "Internal Server Error",
     file_id |-> None]

\* return {"status": "error", "message": str(e)}, 500
ErrorResponse(e) ==
    [code |-> 500, status |-> "error", message |-> e, file_id |-> None]

\* One remote call as the invocation saw it: the exception it raised (None when
\* it returned), the file it wrote, the continuation token a listing returned
Call(op, error, target, token) ==
    [op |-> op, error |-> error, target |-> target, token |-> token]

-----------------------------------------------------------------------------
(* The state machine *)

Terminal == {"DONE", "FAILED"}

Init ==
    /\ drive \in Listings
    /\ \E n \in 0..MaxExisting : files = InitialFiles(n)
    /\ files0 = files
    /\ pc = [i \in Invocations |-> "START"]
    /\ page_token = [i \in Invocations |-> None]
    /\ folder_map = [i \in Invocations |-> <<>>]
    /\ content_str = [i \in Invocations |-> ""]
    /\ existing_files = [i \in Invocations |-> <<>>]
    /\ response = [i \in Invocations |-> NoResponse]
    /\ calls = [i \in Invocations |-> <<>>]
    /\ doneBefore = [i \in Invocations |-> {}]

\* Mutant of Raise: the error is answered but the invocation goes on
RaiseAndGoOn(i, e) ==
    /\ pc' = pc
    /\ response' = [response EXCEPT ![i] = ErrorResponse(e)]

\* except Exception as e: ... return {"status": "error", "message": str(e)}, 500
Raise(i, e) ==
    /\ pc' = [pc EXCEPT ![i] = "FAILED"]
    /\ response' = [response EXCEPT ![i] = ErrorResponse(e)]

Log(i, op, error, target, token) ==
    calls' = [calls EXCEPT ![i] = Append(@, Call(op, error, target, token))]

\* gdrive = GoogleDriveRPA(), then the first lines of build_folder_path_map
ClientInit(i) ==
    /\ pc[i] = "START"
    /\ \/ /\ Log(i, "init", None, None, None)
          /\ pc' = [pc EXCEPT ![i] = "LIST_FOLDERS"]
          /\ page_token' = [page_token EXCEPT ![i] = None]
          /\ folder_map' = [folder_map EXCEPT ![i] = <<>>]
          /\ UNCHANGED response
       \/ /\ \E e \in InitErrors : Raise(i, e) /\ Log(i, "init", e, None, None)
          /\ UNCHANGED <<page_token, folder_map>>
    /\ UNCHANGED <<drive, files, files0, content_str, existing_files, doneBefore>>

\* One turn of the while loop: the list call, the for loop over the page, the
\* test of the token
ListPage(i) ==
    /\ pc[i] = "LIST_FOLDERS"
    /\ \/ /\ \E e \in ProviderErrors : Raise(i, e) /\ Log(i, "list", e, None, None)
          /\ UNCHANGED <<page_token, folder_map>>
       \/ LET results == ProviderList(drive, page_token[i])
              done == ProcessFolders(folder_map[i], results.files)
          IN  /\ Log(i, "list", None, None, results.nextPageToken)
              /\ IF done.raised # None
                 THEN /\ Raise(i, done.raised)
                      /\ UNCHANGED <<page_token, folder_map>>
                 ELSE /\ folder_map' = [folder_map EXCEPT ![i] = done.map]
                      /\ page_token' =
                             [page_token EXCEPT ![i] = NextPageToken(results)]
                      /\ pc' = [pc EXCEPT ![i] =
                                   IF LoopEnds(NextPageToken(results))
                                   THEN "MAP_BUILT" ELSE "LIST_FOLDERS"]
                      /\ UNCHANGED response
    /\ UNCHANGED <<drive, files, files0, content_str, existing_files, doneBefore>>

\* return folder_map, then upload_map_to_drive up to the search
Serialize(i) ==
    /\ pc[i] = "MAP_BUILT"
    /\ content_str' = [content_str EXCEPT ![i] = JsonDumps(folder_map[i])]
    /\ doneBefore' = [doneBefore EXCEPT ![i] = { j \in Invocations : pc[j] = "DONE" }]
    /\ pc' = [pc EXCEPT ![i] = "SEARCH_EXISTING"]
    /\ UNCHANGED <<drive, files, files0, page_token, folder_map, existing_files,
                   response, calls>>

\* search_response = files().list(q=query, ...).execute() and the branch on it
Search(i) ==
    /\ pc[i] = "SEARCH_EXISTING"
    /\ \/ /\ \E e \in ProviderErrors : Raise(i, e) /\ Log(i, "search", e, None, None)
          /\ UNCHANGED existing_files
       \/ /\ \E found \in SearchResults(files, FILENAME, SHARED_DRIVE_FOLDER) :
                /\ existing_files' = [existing_files EXCEPT ![i] = found]
                /\ pc' = [pc EXCEPT ![i] = IF found # <<>> THEN "UPDATE" ELSE "CREATE"]
          /\ Log(i, "search", None, None, None)
          /\ UNCHANGED response
    /\ UNCHANGED <<drive, files, files0, page_token, folder_map, content_str,
                   doneBefore>>

\* updated_file = files().update(fileId=file_id, media_body=media).execute()
Update(i) ==
    /\ pc[i] = "UPDATE"
    /\ LET file_id == SelectExisting(existing_files[i])
       IN  \/ /\ \E e \in ProviderErrors :
                     Raise(i, e) /\ Log(i, "update", e, file_id, None)
              /\ UNCHANGED files
           \/ /\ files' = ProviderUpdate(files, file_id, content_str[i])
              /\ Log(i, "update", None, file_id, None)
              /\ pc' = [pc EXCEPT ![i] = "DONE"]
              /\ response' = [response EXCEPT ![i] = SuccessResponse(file_id)]
    /\ UNCHANGED <<drive, files0, page_token, folder_map, content_str,
                   existing_files, doneBefore>>

\* created_file = files().create(body=file_metadata, media_body=media).execute()
Create(i) ==
    /\ pc[i] = "CREATE"
    /\ \/ /\ \E e \in ProviderErrors : Raise(i, e) /\ Log(i, "create", e, None, None)
          /\ UNCHANGED files
       \/ /\ files' = ProviderCreate(files, FILENAME, SHARED_DRIVE_FOLDER, content_str[i])
          /\ Log(i, "create", None, NewFileId(files), None)
          /\ pc' = [pc EXCEPT ![i] = "DONE"]
          /\ response' = [response EXCEPT ![i] = SuccessResponse(NewFileId(files))]
    /\ UNCHANGED <<drive, files0, page_token, folder_map, content_str,
                   existing_files, doneBefore>>

Step(i) ==
    \/ ClientInit(i)
    \/ ListPage(i)
    \/ Serialize(i)
    \/ Search(i)
    \/ Update(i)
    \/ Create(i)

Next == \E i \in Invocations : Step(i)

Spec == Init /\ [][Next]_vars

\* An invocation that can take a step eventually takes it: every remote call
\* returns or raises, and the platform runs an invocation to its end.
FairSpec == Spec /\ \A i \in Invocations : WF_vars(Step(i))

-----------------------------------------------------------------------------
(* Vocabulary of the properties *)

Keys(map) == { map[n].key : n \in 1..Len(map) }

NoRepeatedKey(map) ==
    \A m, n \in 1..Len(map) : m # n => map[m].key # map[n].key

FolderIdsOn(k) == { drive[k].files[n].id : n \in 1..Len(drive[k].files) }

AllFolderIds == UNION { FolderIdsOn(k) : k \in 1..Len(drive) }

CallsOf(i, ops) == { n \in 1..Len(calls[i]) : calls[i][n].op \in ops }

Returned(i, ops) == { n \in CallsOf(i, ops) : calls[i][n].error = None }

Failed(i, ops) == { n \in CallsOf(i, ops) : calls[i][n].error # None }

Writes == {"update", "create"}

\* build_folder_path_map has returned its map to main
Built(i) ==
    \/ pc[i] \in {"MAP_BUILT", "SEARCH_EXISTING", "UPDATE", "CREATE", "DONE"}
    \/ pc[i] = "FAILED" /\ CallsOf(i, {"search"} \cup Writes) # {}

\* The non-trashed files named folder_map.txt in the container
TargetFiles(fs) ==
    { f \in fs : f.name = FILENAME /\ f.parent = SHARED_DRIVE_FOLDER /\ ~f.trashed }

LastCall(i) == calls[i][Len(calls[i])]

-----------------------------------------------------------------------------
(* C1 *)

\* C1: when build_folder_path_map returns, the keys of its map are exactly the
\* folder ids found on the pages of the listing, each key once, whatever the
\* number of pages and also when an id is on several pages.
C1_MapKeysAreUnionOfPages ==
    \A i \in Invocations :
        Built(i) => /\ Keys(folder_map[i]) = AllFolderIds
                    /\ NoRepeatedKey(folder_map[i])

\* A build over two pages that both carry the same id.
C1_Witness ==
    /\ Built(1)
    /\ Len(drive) = 2
    /\ FolderIdsOn(1) \cap FolderIdsOn(2) # {}
    /\ Len(folder_map[1]) = 1

-----------------------------------------------------------------------------
(* C2 *)

\* Invocation j started upload_map_to_drive after invocation i had returned
\* from it, both returned, and nobody else wrote.
InSequence(i, j) ==
    /\ i # j
    /\ pc[i] = "DONE" /\ pc[j] = "DONE"
    /\ i \in doneBefore[j]
    /\ \A k \in Invocations \ {i, j} : CallsOf(k, Writes) = {}

\* C2: from a container with no file of the target name, two uploads one after
\* the other leave exactly one non-trashed file of that name, holding the
\* second call's serialization, and the second call creates nothing.
C2_PublishTwiceLeavesOneFile ==
    \A i, j \in Invocations :
        (TargetFiles(files0) = {} /\ InSequence(i, j)) =>
            /\ Cardinality(TargetFiles(files)) = 1
            /\ \A f \in TargetFiles(files) : f.content = content_str[j]
            /\ CallsOf(j, {"create"}) = {}
            /\ Cardinality(files) = Cardinality(files0) + 1

C2_Witness ==
    /\ TargetFiles(files0) = {}
    /\ InSequence(1, 2)
    /\ folder_map[2] # <<>>
    /\ Returned(1, {"create"}) # {}
    /\ Returned(2, {"update"}) # {}

-----------------------------------------------------------------------------
(* C3 *)

ListingRaised(i) == Failed(i, {"list"}) # {}

\* C3: when a listing call raises a provider error, on the first page or a
\* later one, main answers 500, "error" and that error's message, and the
\* invocation has issued no search and no write; if no other invocation wrote
\* either, the files are what they were.
C3_ListingErrorWritesNothing ==
    \A i \in Invocations :
        ListingRaised(i) =>
            /\ pc[i] = "FAILED"
            /\ response[i].code = 500
            /\ response[i].status = "error"
            /\ response[i].message = LastCall(i).error
            /\ LastCall(i).op = "list"
            /\ CallsOf(i, {"search"} \cup Writes) = {}
            /\ (\A k \in Invocations \ {i} : Returned(k, Writes) = {}) => files = files0

\* The second listing call of an invocation raised, after a page with folders.
C3_Witness ==
    /\ ListingRaised(1)
    /\ Returned(1, {"list"}) # {}
    /\ drive[1].files # <<>>
    /\ response[1].message = "HttpError 503"
    /\ files = files0

-----------------------------------------------------------------------------
(* C4 *)

BothCreated(i, j) ==
    i # j /\ Returned(i, {"create"}) # {} /\ Returned(j, {"create"}) # {}

\* C4: nothing excludes one invocation from another: whenever two invocations
\* have each seen no existing file and created one, the container holds two
\* different non-trashed files of the target name and both invocations
\* answered 200, each with the id of its own file.
C4_BothCreatesLeaveDuplicates ==
    \A i, j \in Invocations :
        BothCreated(i, j) =>
            /\ existing_files[i] = <<>> /\ existing_files[j] = <<>>
            /\ LastCall(i).target # LastCall(j).target
            /\ { LastCall(i).target, LastCall(j).target }
                   \subseteq { f.id : f \in TargetFiles(files) }
            /\ response[i] = SuccessResponse(LastCall(i).target)
            /\ response[j] = SuccessResponse(LastCall(j).target)

\* The race: no file of the target name at the start, both searches found
\* nothing, both created, two files of the target name at the end.
C4_Witness ==
    /\ TargetFiles(files0) = {}
    /\ BothCreated(1, 2)
    /\ doneBefore[1] = {} /\ doneBefore[2] = {}
    /\ Cardinality(TargetFiles(files)) = 2
    /\ response[1].code = 200 /\ response[2].code = 200

-----------------------------------------------------------------------------
(* C5 *)

Ops(i) == [n \in 1..Len(calls[i]) |-> calls[i][n].op]

\* Client initialisation, every listing call, the search and the write all returned.
AllReturned(i) ==
    /\ \A n \in 1..Len(calls[i]) : calls[i][n].error = None
    /\ Returned(i, {"init"}) # {}
    /\ Returned(i, {"list"}) # {}
    /\ Returned(i, {"search"}) # {}
    /\ Returned(i, Writes) # {}

Messages == ProviderErrors \cup InitErrors \cup {IndexErrorMessage}

\* C5: main ends with 200, "success" and the id of the file its own update or
\* create wrote, or with 500, "error" and a message; 200 only when every call
\* returned, 500 as soon as one raised, and nothing in between.
C5_ResponseIs200Or500 ==
    \A i \in Invocations :
        /\ pc[i] \in Terminal <=> response[i] # NoResponse
        /\ pc[i] = "DONE" <=> response[i].code = 200
        /\ pc[i] = "FAILED" <=> response[i].code = 500
        /\ response[i].code = 200 =>
               /\ AllReturned(i)
               /\ LastCall(i).op \in Writes
               /\ response[i] = SuccessResponse(LastCall(i).target)
               /\ \E f \in files : f.id = response[i].file_id
        /\ response[i].code = 500 =>
               /\ response[i].status = "error"
               /\ response[i].message \in Messages
               /\ response[i].file_id = None
               /\ Returned(i, Writes) = {}
        /\ Failed(i, {"init", "list", "search"} \cup Writes) # {} =>
               response[i].code = 500

\* One invocation answered 200 after a create, the other 500 after a failed update.
C5_Witness ==
    /\ response[1].code = 200 /\ LastCall(1).op = "create"
    /\ response[2].code = 500 /\ Failed(2, {"update"}) # {}

-----------------------------------------------------------------------------
(* C6 *)

\* The folder records of the pages that invocation i has received, in order
RECURSIVE Received(_, _)
Received(i, k) ==
    IF k = 0 THEN <<>> ELSE Received(i, k - 1) \o drive[k].files

FirstOrNull(folder) ==
    IF folder.hasParents /\ folder.parents # <<>> THEN folder.parents[1] ELSE None

EntryOf(map, key) == map[CHOOSE n \in 1..Len(map) : map[n].key = key].value

\* C6: every folder record received has an entry, whose parent is the first
\* element of the parent list of the record (of the last record of that id),
\* or null when the list is empty or absent.
C6_ParentIsFirstOrNull ==
    \A i \in Invocations :
        LET got == Received(i, Cardinality(Returned(i, {"list"})))
        IN  \A n \in 1..Len(got) :
                /\ HasKey(folder_map[i], got[n].id)
                /\ (\A m \in (n + 1)..Len(got) : got[m].id # got[n].id) =>
                       EntryOf(folder_map[i], got[n].id).parent = FirstOrNull(got[n])

\* The same, for the builds that received no record with an empty parent list.
C6_HoldsWithoutEmptyList ==
    \A i \in Invocations :
        LET got == Received(i, Cardinality(Returned(i, {"list"})))
        IN  (\A n \in 1..Len(got) : ~(got[n].hasParents /\ got[n].parents = <<>>)) =>
            \A n \in 1..Len(got) :
                /\ HasKey(folder_map[i], got[n].id)
                /\ (\A m \in (n + 1)..Len(got) : got[m].id # got[n].id) =>
                       EntryOf(folder_map[i], got[n].id).parent = FirstOrNull(got[n])

-----------------------------------------------------------------------------
(* C7 *)

\* The search of invocation i returns in this step.
SearchReturns(i) ==
    pc[i] = "SEARCH_EXISTING" /\ Returned(i, {"search"})' # {}

\* Invocation i issues a write in this step.
WriteIssued(i) == CallsOf(i, Writes)' # CallsOf(i, Writes)

SameButContent(f, g) ==
    f.id = g.id /\ f.name = g.name /\ f.parent = g.parent /\ f.trashed = g.trashed

C7_UpdateStep(i) ==
    /\ (SearchReturns(i) /\ existing_files'[i] # <<>>) => pc'[i] = "UPDATE"
    /\ (pc[i] = "UPDATE" /\ WriteIssued(i)) =>
           /\ existing_files[i] # <<>>
           /\ Len(calls'[i]) = Len(calls[i]) + 1
           /\ LastCall(i)'.op = "update"
           /\ LastCall(i)'.target = existing_files[i][1]
           /\ { f.id : f \in files' } = { f.id : f \in files }
           /\ \A f \in files : \E g \in files' :
                  /\ SameButContent(f, g)
                  /\ f.id # existing_files[i][1] => g = f
           /\ LastCall(i)'.error = None =>
                  /\ response'[i] = SuccessResponse(existing_files[i][1])
                  /\ \E g \in files' :
                         g.id = existing_files[i][1] /\ g.content = content_str[i]
           /\ LastCall(i)'.error # None => files' = files

\* After a search that found files: no create, at most one update, and
\* exactly one once the invocation is done.
C7_OneUpdateNoCreate(i) ==
    existing_files[i] # <<>> =>
        /\ CallsOf(i, {"create"}) = {}
        /\ Cardinality(CallsOf(i, {"update"})) <= 1
        /\ pc[i] = "DONE" => Cardinality(Returned(i, {"update"})) = 1
        /\ pc[i] \in {"UPDATE", "DONE", "FAILED"}

\* C7: a search that returns one or more files leads to the update branch,
\* which issues one update, on the first file of the search result, and no
\* create; it answers with that file's id, replaces that file's content and
\* leaves the id, name and parent of every file, and all of every other file,
\* as they were.
C7_UpdateBranchTouchesOnlyContent ==
    /\ [](\A i \in Invocations : C7_OneUpdateNoCreate(i))
    /\ [][\A i \in Invocations : C7_UpdateStep(i)]_vars

\* An update done while two files of the target name existed: the first of
\* the search result holds the new content, the other one its old content.
C7_Witness ==
    /\ pc[1] = "DONE"
    /\ Len(existing_files[1]) = 2
    /\ pc[2] = "START"
    /\ folder_map[1] # <<>>
    /\ \E f, g \in TargetFiles(files) :
           /\ f.id = existing_files[1][1] /\ f.content = content_str[1]
           /\ g.id = existing_files[1][2] /\ g.content = "old"

-----------------------------------------------------------------------------
(* C8 *)

EmptyDrive == Len(drive) = 1 /\ drive[1].files = <<>>

\* C8: with no folder in the drive and no file of the target name found, an
\* invocation whose calls all return publishes all the same: it creates one
\* file folder_map.txt in the container, holding "{}", and answers 200 with
\* the id of that file.
C8_EmptyDriveStillPublishes ==
    \A i \in Invocations :
        (EmptyDrive /\ pc[i] \in Terminal /\ Failed(i, {"init", "list", "search"} \cup Writes) = {}) =>
            /\ pc[i] = "DONE"
            /\ content_str[i] = "{}"
            /\ existing_files[i] = <<>> =>
                   /\ Cardinality(CallsOf(i, {"create"})) = 1
                   /\ CallsOf(i, {"update"}) = {}
                   /\ response[i] = SuccessResponse(LastCall(i).target)
                   /\ \E f \in TargetFiles(files) :
                          f.id = LastCall(i).target /\ f.content = "{}"
                   /\ TargetFiles(files0) = {} /\ (\A k \in Invocations \ {i} : CallsOf(k, Writes) = {})
                          => /\ Cardinality(TargetFiles(files)) = 1
                             /\ Cardinality(files) = Cardinality(files0) + 1

C8_Witness ==
    /\ EmptyDrive
    /\ TargetFiles(files0) = {}
    /\ pc[1] = "DONE" /\ pc[2] = "START"
    /\ Returned(1, {"create"}) # {}
    /\ \E f \in files : f.id = response[1].file_id /\ f.content = "{}" /\ f.name = FILENAME

-----------------------------------------------------------------------------
(* C9 *)

\* What may come before the n-th call of invocation i, n > 1
FollowsInOrder(i, n) ==
    LET op == calls[i][n].op
        before == calls[i][n - 1]
    IN  /\ before.error = None
        /\ op # "init"
        /\ op = "list" =>
               \/ before.op = "init"
               \/ before.op = "list" /\ before.token # None
        /\ op = "search" => before.op = "list" /\ before.token = None
        /\ op \in Writes => before.op = "search"

\* Where invocation i is agrees with the calls it has issued
PlaceAgrees(i) ==
    /\ pc[i] = "START" <=> calls[i] = <<>>
    /\ pc[i] = "LIST_FOLDERS" =>
           /\ LastCall(i).error = None
           /\ \/ LastCall(i).op = "init"
              \/ LastCall(i).op = "list" /\ LastCall(i).token # None
    /\ pc[i] \in {"MAP_BUILT", "SEARCH_EXISTING"} =>
           LastCall(i) = Call("list", None, None, None)
    /\ pc[i] \in {"UPDATE", "CREATE"} =>
           /\ LastCall(i) = Call("search", None, None, None)
           /\ pc[i] = "UPDATE" <=> existing_files[i] # <<>>
    /\ pc[i] = "DONE" => LastCall(i).op \in Writes /\ LastCall(i).error = None

C9_Order(i) ==
    /\ calls[i] # <<>> => calls[i][1].op = "init"
    /\ \A n \in 2..Len(calls[i]) : FollowsInOrder(i, n)
    /\ Cardinality(CallsOf(i, Writes)) <= 1
    /\ PlaceAgrees(i)

Moves ==
    { <<"START", "LIST_FOLDERS">>, <<"LIST_FOLDERS", "LIST_FOLDERS">>,
      <<"LIST_FOLDERS", "MAP_BUILT">>, <<"MAP_BUILT", "SEARCH_EXISTING">>,
      <<"SEARCH_EXISTING", "UPDATE">>, <<"SEARCH_EXISTING", "CREATE">>,
      <<"UPDATE", "DONE">>, <<"CREATE", "DONE">> }
    \cup { <<p, "FAILED">> :
             p \in {"START", "LIST_FOLDERS", "MAP_BUILT", "SEARCH_EXISTING",
                    "UPDATE", "CREATE"} }

C9_Step(i) ==
    /\ (pc'[i] # pc[i] \/ calls'[i] # calls[i]) => <<pc[i], pc'[i]>> \in Moves
    /\ pc[i] \in Terminal =>
           pc'[i] = pc[i] /\ calls'[i] = calls[i] /\ response'[i] = response[i]

\* C9: the calls of an invocation come in the order init, list (again only
\* after a page with a token), search (only after a page without one), then
\* one update or one create; no call follows a call that raised, and an
\* invocation in DONE or FAILED issues no call and stays there.
C9_CallsFollowTheStateMachine ==
    /\ [](\A i \in Invocations : C9_Order(i))
    /\ [][\A i \in Invocations : C9_Step(i)]_vars

\* One invocation went through two pages to DONE, the other failed in its search.
C9_Witness ==
    /\ pc[1] = "DONE" /\ Cardinality(Returned(1, {"list"})) = 2
    /\ pc[2] = "FAILED" /\ Failed(2, {"search"}) # {}

-----------------------------------------------------------------------------
(* C10 *)

\* The n-th call of invocation i is a listing call that follows another one
\* only if that one returned a token, and the loop is left only on a page
\* without a token.
C10_Loop(i) ==
    /\ \A n \in CallsOf(i, {"list"}) :
           (n > 1 /\ calls[i][n - 1].op = "list") =>
               calls[i][n - 1].error = None /\ calls[i][n - 1].token # None
    /\ \A n \in Returned(i, {"list"}) :
           calls[i][n].token = drive[n - 1].nextPageToken
    /\ Cardinality(CallsOf(i, {"list"})) <= Len(drive)
    /\ Built(i) => Cardinality(Returned(i, {"list"})) = Len(drive)
    /\ (pc[i] = "LIST_FOLDERS" /\ LastCall(i).op = "list") => LastCall(i).token # None

\* C10: the loop asks for the next page exactly while the last response
\* carried a token and stops at the first one without; as every call returns
\* or raises and the listing has finitely many pages, every invocation ends
\* in DONE or FAILED.
C10_ListingLoopTerminates ==
    /\ [](\A i \in Invocations : C10_Loop(i))
    /\ <>(\A i \in Invocations : pc[i] \in Terminal)

\* An invocation that listed as many pages as the bound allows and ended in DONE.
C10_Witness ==
    /\ pc[1] = "DONE"
    /\ Len(drive) = MaxPages
    /\ Cardinality(Returned(1, {"list"})) = MaxPages

====
